---------------------------- MODULE Spec2Model ----------------------------
(***************************************************************************)
(* State-machine model of aiko_streamlit.py: a Streamlit script that loads *)
(* a table of songs with eight emotion scores each, and on every widget    *)
(* interaction re-executes top to bottom over the cached table.            *)
(*                                                                         *)
(* One action = one execution of the script (the first run, or the rerun   *)
(* that a widget interaction triggers).                                    *)
(*                                                                         *)
(* Conventions                                                             *)
(*  - Non-ASCII source strings are written in ASCII: the column "kyokumei" *)
(*    is the source's song-title column (line 128), "ruijido" its          *)
(*    similarity display column (line 317), "juni" its rank column (lines  *)
(*    321, 412), RANK_SUFFIX the rank suffix character (lines 322, 414);   *)
(*    the emotion labels are written in English.                           *)
(*  - A pandas DataFrame is [columns |-> <<names>>, rows |-> <<row>>], a   *)
(*    row being [index |-> label, cells |-> [column -> value]].            *)
(*  - Python's None is the string "None"; an unbound Python name is the    *)
(*    string "unbound"; booleans held in widget/script state are "True"    *)
(*    and "False".                                                         *)
(*  - A float similarity is kept exactly, as [dot, norm2] (see             *)
(*    cosine_similarity); two similarities are compared by                 *)
(*    cross-multiplication.                                                *)
(*  - The eight "<emotion> score reason" text columns are carried by no    *)
(*    operation modelled here and are left out of the rows.                *)
(***************************************************************************)
EXTENDS Integers, Sequences, FiniteSets, TLC

\* Largest number of songs in a dataset.
MaxSongs == 3

None == "None"

Range(s) == {s[i] : i \in DOMAIN s}

\* A function over column names, and a sequence of rows, as explicit values
\* (an evaluation detail: the mapping is computed once, not at each use).
Cells(f) == f @@ <<>>

Frame(columns, rows) ==
    [columns |-> columns, rows |-> SubSeq(rows, 1, Len(rows))]

\* A frame the script has not computed in this run.
NoFrame == Frame(<<>>, <<>>)

\* aiko_streamlit.py:136-145 (the CSV's score columns, in storage order)
EMOTION_LIST ==
    <<"joy", "trust", "fear", "surprise", "sadness", "disgust", "anger",
      "anticipation">>

\* aiko_streamlit.py:147-156 (the axis order of the chart and of all vectors)
EMOTION_GRAPH ==
    <<"fear", "trust", "joy", "anticipation", "anger", "disgust", "sadness",
      "surprise">>

\* The columns of the CSV file read at lines 122-126 (after index_col=0).
CSV_COLUMNS == <<"track_name", "image_urls">> \o EMOTION_LIST

RANK_SUFFIX == "_i"

(***************************************************************************)
(* The input dataset.                                                      *)
(***************************************************************************)

\* Score vectors a song may have, in EMOTION_LIST order: the second is twice
\* the first (equal cosine to any reference), the third shares its trust
\* score with the first, the fourth is all zero.
Profiles ==
    << <<4, 1, 2, 3, 1, 2, 3, 4>>,
       <<8, 2, 4, 6, 2, 4, 6, 8>>,
       <<3, 1, 7, 1, 6, 5, 5, 0>>,
       <<0, 0, 0, 0, 0, 0, 0, 0>> >>

TrackName(i) == "song" \o ToString(i)

Url(i) == "http://img/" \o ToString(i)

\* A Python string, by what ast.literal_eval makes of it: it either parses
\* to a list (value) or does not parse.
Str(list) == [parses |-> TRUE, value |-> list]

NotALiteral == [parses |-> FALSE, value |-> <<>>]

ImageKinds ==
    {"nested", "nested_many", "unparsable", "empty", "inner_unparsable",
     "inner_empty"}

GoodImageKinds == {"nested", "nested_many"}

\* The image_urls cell of song i: a stringified list of stringified lists.
RawImage(kind, i) ==
    CASE kind = "nested" -> Str(<<Str(<<Url(i)>>)>>)
      [] kind = "nested_many" ->
            Str(<<Str(<<Url(i), "http://img/other">>), Str(<<"http://x">>)>>)
      [] kind = "unparsable" -> NotALiteral
      [] kind = "empty" -> Str(<<>>)
      [] kind = "inner_unparsable" -> Str(<<NotALiteral>>)
      [] kind = "inner_empty" -> Str(<<Str(<<>>)>>)

CsvRow(label, i, profile, kind) ==
    [index |-> label,
     cells |-> Cells([c \in Range(CSV_COLUMNS) |->
                  IF c = "track_name" THEN TrackName(i)
                  ELSE IF c = "image_urls" THEN RawImage(kind, i)
                  ELSE LET k == CHOOSE k \in 1..8 : EMOTION_LIST[k] = c
                       IN  Profiles[profile][k]])]

\* Datasets whose every image cell decodes: the songs take the profiles in
\* turn, starting anywhere; the index column counts up from 0 or down to 0.
GoodFiles ==
    UNION {
      { [i \in 1..n |->
           CsvRow(IF shift % 2 = 1 THEN i - 1 ELSE n - i, i,
                  ((i + shift) % Len(Profiles)) + 1,
                  IF i % 2 = 1 THEN "nested" ELSE "nested_many")] :
        shift \in 1..Len(Profiles) } :
      n \in 0..MaxSongs }

\* Datasets with one image cell that does not decode.
BadFiles ==
    UNION {
      { [i \in 1..n |->
           CsvRow(i - 1, i, 1, IF i = b THEN kind ELSE "nested")] :
        b \in 1..n, kind \in ImageKinds \ GoodImageKinds } :
      n \in 1..MaxSongs }

(***************************************************************************)
(* pandas operations used by the script.                                   *)
(***************************************************************************)

HasColumn(frame, col) == col \in Range(frame.columns)

\* frame[col]: the column's values, by position.
Column(frame, col) ==
    SubSeq([i \in 1..Len(frame.rows) |-> frame.rows[i].cells[col]],
           1, Len(frame.rows))

\* frame[col] = vals (vals by position): a new or overwritten column.
WithColumn(frame, col, vals) ==
    Frame(IF HasColumn(frame, col) THEN frame.columns
          ELSE Append(frame.columns, col),
          [i \in 1..Len(frame.rows) |->
             [index |-> frame.rows[i].index,
              cells |-> (col :> vals[i]) @@ frame.rows[i].cells]])

\* frame[cols] with cols a list: a new frame holding those columns.
SelectColumns(frame, cols) ==
    Frame(cols,
          [i \in 1..Len(frame.rows) |->
             [index |-> frame.rows[i].index,
              cells |-> Cells([c \in Range(cols) |->
                                 frame.rows[i].cells[c]])]])

\* frame[mask]: the rows whose test holds, in the frame's order.
FilterRows(frame, Keep(_)) == Frame(frame.columns, SelectSeq(frame.rows, Keep))

\* frame.loc[labels]: the rows carrying the given index labels, in the order
\* of the labels (index labels are unique: the index column of the file).
Loc(frame, labels) ==
    Frame(frame.columns,
          [k \in 1..Len(labels) |->
             frame.rows[CHOOSE i \in 1..Len(frame.rows) :
                          frame.rows[i].index = labels[k]]])

\* frame.iloc[positions]: the rows at the given 0-based positions.
Iloc(frame, positions) ==
    Frame(frame.columns,
          [k \in 1..Len(positions) |-> frame.rows[positions[k] + 1]])

\* frame.reset_index(drop=True): the index becomes 0..n-1.
ResetIndex(frame) ==
    Frame(frame.columns,
          [i \in 1..Len(frame.rows) |->
             [index |-> i - 1, cells |-> frame.rows[i].cells]])

\* series aligned to a frame by index label (column assignment from a series
\* of another frame, line 317).
AlignedTo(frame, other, col) ==
    [i \in 1..Len(frame.rows) |->
       other.rows[CHOOSE j \in 1..Len(other.rows) :
                    other.rows[j].index = frame.rows[i].index].cells[col]]

RECURSIVE SumTo(_, _)
\* f[1] + ... + f[n]
SumTo(f, n) == IF n = 0 THEN 0 ELSE SumTo(f, n - 1) + f[n]

\* Series.mean(): kept exactly, as the sum and the count; NaN when count = 0.
Mean(vals) == [sum |-> SumTo(vals, Len(vals)), count |-> Len(vals)]

IsNaN(m) == m.count = 0

\* astype(int) of a finite float: truncation toward zero.
AsTypeIntRounded(m) == (2 * m.sum + m.count) \div (2 * m.count)

AsTypeInt(m) ==
    IF m.sum >= 0 THEN m.sum \div m.count ELSE -((-m.sum) \div m.count)

(***************************************************************************)
(* Sorting.  DataFrame.sort_values is called without `kind`, so pandas     *)
(* sorts with its default kind "quicksort", which numpy documents as not   *)
(* stable: the order of rows with equal keys is whatever the numpy build   *)
(* produces.  The operation is therefore a set of outcomes: every          *)
(* arrangement of the rows that is ordered by the key.                     *)
(***************************************************************************)

\* The arrangements p of the positions 1..n (row p[i] comes i-th) that place
\* no row after a row it must come before.
OrderedArrangements(n, Before(_, _)) ==
    {p \in Permutations(1..n) :
       \A i, j \in 1..n : i < j => ~Before(p[j], p[i])}

Rearranged(frame, p) ==
    Frame(frame.columns, [i \in 1..Len(frame.rows) |-> frame.rows[p[i]]])

\* sort_values(by, ascending) of a column of integers, the flag ignored.
SortValuesAscendingOnly(frame, by, ascending) ==
    LET key == Column(frame, by)
        Before(a, b) == key[a] < key[b]
    IN  OrderedArrangements(Len(frame.rows), Before)

\* frame.sort_values(by, ascending=ascending) of a column of integers: the
\* arrangements it may return (the frame itself is Rearranged(frame, p)).
SortValues(frame, by, ascending) ==
    LET key == Column(frame, by)
        Before(a, b) == IF ascending THEN key[a] < key[b] ELSE key[a] > key[b]
    IN  OrderedArrangements(Len(frame.rows), Before)

(***************************************************************************)
(* sklearn.metrics.pairwise.cosine_similarity                              *)
(***************************************************************************)

Dot(u, v) == SumTo([k \in 1..Len(u) |-> u[k] * v[k]], Len(u))

\* A similarity is the float dot(x, y) / (|x| |y|) with y the common
\* reference vector; sklearn takes the norm of an all-zero vector as 1 and
\* so yields 0.  Kept as dot(x, y) and |x|^2.
Similarity(x, y) ==
    IF Dot(x, x) = 0 \/ Dot(y, y) = 0 THEN [dot |-> 0, norm2 |-> 1]
    ELSE [dot |-> Dot(x, y), norm2 |-> Dot(x, x)]

\* s < t for two similarities to the same reference (scores are >= 0).
SimLess(s, t) == s.dot * s.dot * t.norm2 < t.dot * t.dot * s.norm2

SimEqual(s, t) == ~SimLess(s, t) /\ ~SimLess(t, s)

\* cosine_similarity(reference, frame)[0]: one similarity per row.
cosine_similarity(reference, frame) ==
    [i \in 1..Len(frame.rows) |->
       Similarity([k \in 1..Len(frame.columns) |->
                     frame.rows[i].cells[frame.columns[k]]],
                  reference)]

\* sort_values(by="similarity") in ascending order.
SortBySimilarityAscending(frame) ==
    LET key == Column(frame, "similarity")
        Before(a, b) == SimLess(key[a], key[b])
    IN  OrderedArrangements(Len(frame.rows), Before)

\* frame.sort_values(by="similarity", ascending=False): the arrangements it
\* may return.
SortBySimilarity(frame) ==
    LET key == Column(frame, "similarity")
        Before(a, b) == SimLess(key[b], key[a])
    IN  OrderedArrangements(Len(frame.rows), Before)

(***************************************************************************)
(* The script, top to bottom.  A step that raises yields [ok |-> FALSE]     *)
(* with the exception's name; nothing after it is executed.                 *)
(***************************************************************************)

Return(v) == [ok |-> TRUE, exc |-> None, val |-> v]

\* aiko_streamlit.py:25, a variant that swallows the failure.
convert_image_urls_sentinel(row) ==
    IF ~row.parses \/ Len(row.value) = 0 THEN Return("unavailable")
    ELSE IF ~row.value[1].parses \/ Len(row.value[1].value) = 0
         THEN Return("unavailable")
    ELSE Return(row.value[1].value[1])

\* aiko_streamlit.py:17-25: ast.literal_eval(ast.literal_eval(row)[0])[0]
convert_image_urls(row) ==
    IF ~row.parses THEN [ok |-> FALSE, exc |-> "ValueError", val |-> ""]
    ELSE IF Len(row.value) = 0
         THEN [ok |-> FALSE, exc |-> "IndexError", val |-> ""]
    ELSE IF ~row.value[1].parses
         THEN [ok |-> FALSE, exc |-> "ValueError", val |-> ""]
    ELSE IF Len(row.value[1].value) = 0
         THEN [ok |-> FALSE, exc |-> "IndexError", val |-> ""]
    ELSE Return(row.value[1].value[1])

\* aiko_streamlit.py:122-126: the file's rows under CSV_COLUMNS.
ReadCsv(file) == Frame(CSV_COLUMNS, file)

\* aiko_streamlit.py:114-132
load_df(file) ==
    LET df0 == ReadCsv(file)
        df1 == WithColumn(df0, "kyokumei", Column(df0, "track_name"))
        conv == [i \in 1..Len(df1.rows) |->
                   convert_image_urls(df1.rows[i].cells["image_urls"])]
        bad == {i \in 1..Len(df1.rows) : ~conv[i].ok}
    IN  IF bad # {}
        THEN [ok |-> FALSE,
              exc |-> conv[CHOOSE i \in bad : \A j \in bad : i <= j].exc,
              val |-> NoFrame]
        ELSE Return(WithColumn(df1, "converted_image_urls",
                               [i \in 1..Len(df1.rows) |-> conv[i].val]))

\* aiko_streamlit.py:186: df[df["track_name"].isin(options)]
SelectedDf(d, options) ==
    LET Keep(row) == row.cells["track_name"] \in Range(options)
    IN  FilterRows(d, Keep)

\* aiko_streamlit.py:183-186, 275-285: the frame the chart's values are
\* taken from.
ChartFrame(d, options) ==
    IF Len(options) > 0 THEN SelectedDf(d, options) ELSE d

\* frame[EMOTION_GRAPH].mean().astype(int).to_list(), a variant that yields
\* zeros for an empty frame.
EmotionMeansDefaulting(frame) ==
    LET sel == SelectColumns(frame, EMOTION_GRAPH)
        means == [k \in 1..Len(sel.columns) |->
                    Mean(Column(sel, sel.columns[k]))]
    IN  Return([k \in 1..Len(sel.columns) |->
                  IF IsNaN(means[k]) THEN 0 ELSE AsTypeInt(means[k])])

\* aiko_streamlit.py:264, 285:
\* frame[EMOTION_GRAPH].mean().astype(int).to_list(); astype(int) raises a
\* ValueError on NaN, the mean of no rows.
EmotionMeans(frame) ==
    LET sel == SelectColumns(frame, EMOTION_GRAPH)
        means == [k \in 1..Len(sel.columns) |->
                    Mean(Column(sel, sel.columns[k]))]
    IN  IF \E k \in 1..Len(sel.columns) : IsNaN(means[k])
        THEN [ok |-> FALSE, exc |-> "ValueError", val |-> <<>>]
        ELSE Return([k \in 1..Len(sel.columns) |-> AsTypeInt(means[k])])

\* aiko_streamlit.py:305-309, were df[EMOTION_GRAPH] a view of df.
AssignSimilarityInPlace(d, df_emotion, similarities) ==
    [df |-> WithColumn(d, "similarity", similarities),
     df_emotion |-> WithColumn(df_emotion, "similarity", similarities)]

\* aiko_streamlit.py:305-309: df_emotion = df[EMOTION_GRAPH] is a new frame,
\* and the similarity column is added to it alone.
AssignSimilarity(d, df_emotion, similarities) ==
    [df |-> d,
     df_emotion |-> WithColumn(df_emotion, "similarity", similarities)]

\* aiko_streamlit.py:319, keeping every row.
ExcludeSelectedNot(frame, options) == frame

\* aiko_streamlit.py:319: df_similarity[~df_similarity["kyokumei"].isin(options)]
ExcludeSelected(frame, options) ==
    LET Keep(row) == row.cells["kyokumei"] \notin Range(options)
    IN  FilterRows(frame, Keep)

\* aiko_streamlit.py:321-322, 412-415, counting from 0.
WithRankFromZero(frame) ==
    WithColumn(frame, "juni",
               [i \in 1..Len(frame.rows) |-> ToString(i - 1) \o RANK_SUFFIX])

\* aiko_streamlit.py:321-322, 412-415: range(1, len + 1) as text + suffix.
WithRank(frame) ==
    WithColumn(frame, "juni",
               [i \in 1..Len(frame.rows) |-> ToString(i) \o RANK_SUFFIX])

\* aiko_streamlit.py:303-309: df_emotion with its similarity column, and df.
SimilarityInput(d, vals) ==
    LET df_emotion == SelectColumns(d, EMOTION_GRAPH)
    IN  AssignSimilarity(d, df_emotion, cosine_similarity(vals, df_emotion))

\* aiko_streamlit.py:315-322: df_similarity, from the sorted df_emotion.
SimilarityResult(assigned, top, options) ==
    LET located == Loc(assigned.df,
                       [i \in 1..Len(top.rows) |-> top.rows[i].index])
        shown == WithColumn(located, "ruijido",
                            AlignedTo(located, assigned.df_emotion,
                                      "similarity"))
    IN  WithRank(ExcludeSelected(shown, options))

\* Python truthiness of the selectbox's value (None or a label), always true.
TruthyAlways(v) == TRUE

\* Python truthiness of the selectbox's value (None or a label).
Truthy(v) == v # None /\ v # ""

LARGEST_FIRST == "largest_first"

SMALLEST_FIRST == "smallest_first"

\* aiko_streamlit.py:391-403: bound only when an emotion is selected.
AscendingFlg(selected_emotion, ascending_select) ==
    IF ~Truthy(selected_emotion) THEN "unbound"
    ELSE IF ascending_select = LARGEST_FIRST THEN "False" ELSE "True"

\* aiko_streamlit.py:408-415: df_selected_emotion, from the arrangement p
\* that sort_values returned.
RankingResult(d, p) == WithRank(ResetIndex(Rearranged(d, p)))

\* aiko_streamlit.py:418-420
RankingDisplay(df_selected_emotion) ==
    SelectColumns(df_selected_emotion,
                  <<"juni", "kyokumei", "converted_image_urls">>
                    \o EMOTION_LIST)

\* aiko_streamlit.py:467-475, reading the catalog instead of the ranking.
SelectedSongOfCatalog(d, df_selected_emotion, session_rows) ==
    IF Len(df_selected_emotion.columns) = 0 \/ Len(session_rows) = 0 THEN None
    ELSE Column(Iloc(d, session_rows), "kyokumei")[1]

\* aiko_streamlit.py:467-475: the title at the selected position of the
\* displayed ranking, when the table is shown and a row is selected.
SelectedSong(d, df_selected_emotion, session_rows) ==
    IF Len(df_selected_emotion.columns) = 0 \/ Len(session_rows) = 0 THEN None
    ELSE Column(Iloc(RankingDisplay(df_selected_emotion), session_rows),
                "kyokumei")[1]

(***************************************************************************)
(* State.                                                                  *)
(***************************************************************************)
VARIABLES
    csv,                 \* the dataset file (never written)
    phase,               \* "start", "ready" (load_df returned), "failed"
    cache,               \* st.cache_data's stored result of load_df
    df,                  \* the script's global df at the end of the last run
    error,               \* the exception that ended the last run, or None
    options,             \* the multiselect's value (the set of its titles)
    values,              \* the chart's values (line 264 or 285)
    top_similar_df,      \* line 312
    df_similarity,       \* lines 315-322
    selected_emotion,    \* the first selectbox's value (line 384)
    ascending_select,    \* the second selectbox's value (line 394)
    ascending_flg,       \* lines 400-403
    df_selected_emotion, \* lines 408-415
    rows,                \* st.session_state.data.selection.rows
    selected_song        \* line 473, the song of the detail panel

vars ==
    <<csv, phase, cache, df, error, options, values, top_similar_df,
      df_similarity, selected_emotion, ascending_select, ascending_flg,
      df_selected_emotion, rows, selected_song>>

\* The orders in which the multiselect may list a set of selected titles.
Orderings(S) ==
    {o \in [1..Cardinality(S) -> S] :
       \A i, j \in 1..Cardinality(S) : i # j => o[i] # o[j]}

\* The multiselect's list for a set of titles, in the order of the catalog
\* (its order reaches the script only through isin, lines 186 and 319).
OptionList(d, S) ==
    LET Chosen(t) == t \in S
    IN  SelectSeq(Column(d, "track_name"), Chosen)

Init ==
    /\ csv \in GoodFiles \cup BadFiles
    /\ phase = "start"
    /\ cache = NoFrame
    /\ df = NoFrame
    /\ error = None
    /\ options = {}
    /\ values = <<>>
    /\ top_similar_df = NoFrame
    /\ df_similarity = NoFrame
    /\ selected_emotion = None
    /\ ascending_select = LARGEST_FIRST
    /\ ascending_flg = "unbound"
    /\ df_selected_emotion = NoFrame
    /\ rows = <<>>
    /\ selected_song = None

\* The run ended by an exception at or before line 285: nothing below it is
\* rendered, and widgets that were not rendered lose their state.
Aborted(d, opts, exc) ==
    /\ error' = exc
    /\ df' = d
    /\ options' = Range(opts)
    /\ values' = <<>>
    /\ top_similar_df' = NoFrame
    /\ df_similarity' = NoFrame
    /\ selected_emotion' = None
    /\ ascending_select' = LARGEST_FIRST
    /\ ascending_flg' = "unbound"
    /\ df_selected_emotion' = NoFrame
    /\ rows' = <<>>
    /\ selected_song' = None

\* aiko_streamlit.py:467-497: the end of a run that got past line 322, the
\* ranking block having raised exc or produced ranked.
Finish(d, opts, vals, top, similar, emo, ascSel, flg, exc, ranked, rws) ==
    LET shown == exc = None /\ Truthy(emo)
    IN  /\ error' = exc
        /\ df' = d
        /\ options' = Range(opts)
        /\ values' = vals
        /\ top_similar_df' = top
        /\ df_similarity' = similar
        /\ selected_emotion' = emo
        /\ ascending_select' = IF Truthy(emo) THEN ascSel ELSE LARGEST_FIRST
        /\ ascending_flg' = flg
        /\ df_selected_emotion' = ranked
        /\ rows' = IF shown THEN rws ELSE <<>>
        /\ selected_song' =
             SelectedSong(d, ranked, IF shown THEN rws ELSE <<>>)

\* aiko_streamlit.py:382-497: the ranking part of a run.  sameRank says that
\* the sort's inputs are those of the previous run: a sort is a deterministic
\* computation, and the arrangement it gave then comes out again.
RankingPart(d, opts, vals, top, similar, emo, ascSel, rws, sameRank) ==
    \E flg \in {AscendingFlg(emo, ascSel)} :
      IF ~Truthy(emo)
      THEN Finish(d, opts, vals, top, similar, emo, ascSel, flg, None,
                  NoFrame, rws)
      ELSE IF flg = "unbound"
      THEN Finish(d, opts, vals, top, similar, emo, ascSel, flg,
                  "NameError", NoFrame, rws)
      ELSE IF ~HasColumn(d, emo)
      THEN Finish(d, opts, vals, top, similar, emo, ascSel, flg,
                  "KeyError", NoFrame, rws)
      ELSE \E p \in SortValues(d, emo, flg = "True") :
           \E ranked \in {RankingResult(d, p)} :
              /\ sameRank => ranked = df_selected_emotion
              /\ Finish(d, opts, vals, top, similar, emo, ascSel, flg,
                        None, ranked, rws)

\* aiko_streamlit.py:169-497: one execution of the script over the loaded
\* frame d, with the widgets holding opts, emo, ascSel and rws.  sameSim is
\* sameRank for the similarity sort.
Rerun(d, opts, emo, ascSel, rws, sameSim, sameRank) ==
    \E agg \in {EmotionMeans(ChartFrame(d, opts))} :
      IF ~agg.ok THEN Aborted(d, opts, agg.exc)
      ELSE IF Len(opts) = 0
      THEN RankingPart(d, opts, agg.val, NoFrame, NoFrame, emo, ascSel,
                       rws, sameRank)
      ELSE \E assigned \in {SimilarityInput(d, agg.val)} :
           \E p \in SortBySimilarity(assigned.df_emotion) :
           \E top \in {Rearranged(assigned.df_emotion, p)} :
              /\ sameSim => top = top_similar_df
              /\ \E similar \in {SimilarityResult(assigned, top, opts)} :
                   RankingPart(assigned.df, opts, agg.val, top, similar,
                               emo, ascSel, rws, sameRank)

\* The first execution: load_df runs (line 169) and, if it returns, its
\* result is cached and the script goes on with every widget at its default.
FirstRun ==
    /\ phase = "start"
    /\ \E loaded \in {load_df(csv)} :
           IF loaded.ok
           THEN /\ phase' = "ready"
                /\ cache' = loaded.val
                /\ Rerun(loaded.val, <<>>, None, LARGEST_FIRST, <<>>, FALSE, FALSE)
           ELSE /\ phase' = "failed"
                /\ error' = loaded.exc
                /\ UNCHANGED <<cache, df, options, values, top_similar_df,
                               df_similarity, selected_emotion,
                               ascending_select, ascending_flg,
                               df_selected_emotion, rows, selected_song>>
    /\ UNCHANGED csv

Rendered == phase = "ready" /\ error = None

\* What the table's row selection may be after a rerun that changed the
\* table's data: kept, or cleared by the framework.
RowsAfter == {rows, <<>>}

\* aiko_streamlit.py:176-181: a title is added to or removed from the
\* multiselect.
SelectSongs ==
    /\ Rendered
    /\ \E name \in Range(Column(cache, "track_name")) :
          Rerun(cache,
                OptionList(cache, IF name \in options THEN options \ {name}
                                  ELSE options \cup {name}),
                selected_emotion, ascending_select, rows, FALSE, TRUE)
    /\ UNCHANGED <<csv, phase, cache>>

\* aiko_streamlit.py:382-390: an emotion is chosen, or the choice cleared.
SelectEmotion ==
    /\ Rendered
    /\ \E emo \in (Range(EMOTION_LIST) \cup {None}) \ {selected_emotion} :
       \E rws \in RowsAfter :
          Rerun(cache, OptionList(cache, options), emo, ascending_select, rws,
                TRUE, FALSE)
    /\ UNCHANGED <<csv, phase, cache>>

\* aiko_streamlit.py:391-398: the order selectbox, shown once an emotion is
\* selected.
SelectDirection ==
    /\ Rendered
    /\ Truthy(selected_emotion)
    /\ \E ascSel \in {LARGEST_FIRST, SMALLEST_FIRST} \ {ascending_select} :
       \E rws \in RowsAfter :
          Rerun(cache, OptionList(cache, options), selected_emotion, ascSel,
                rws, TRUE, FALSE)
    /\ UNCHANGED <<csv, phase, cache>>

\* aiko_streamlit.py:8-13: the table's on_select callback; it prints the
\* selection and changes nothing.
dataframe_row_selection_change(session_rows) == session_rows

\* aiko_streamlit.py:460-462: a row of the ranking table is selected
\* (single-row mode) or the selection is cleared.
SelectRow ==
    /\ Rendered
    /\ Truthy(selected_emotion)
    /\ \E rws \in ({<<r>> : r \in 0..(Len(df_selected_emotion.rows) - 1)}
                   \cup {<<>>}) \ {rows} :
          Rerun(cache, OptionList(cache, options), selected_emotion,
                ascending_select, dataframe_row_selection_change(rws),
                TRUE, TRUE)
    /\ UNCHANGED <<csv, phase, cache>>

Next == FirstRun \/ SelectSongs \/ SelectEmotion \/ SelectDirection \/ SelectRow

Spec == Init /\ [][Next]_vars

(***************************************************************************)
(* Properties.                                                             *)
(***************************************************************************)

Ready == phase = "ready"

Titles(frame) == Column(frame, "kyokumei")

Labels(frame) == [i \in 1..Len(frame.rows) |-> frame.rows[i].index]

\* The position in the catalog of the row with the given index label.
CatalogPosition(label) ==
    CHOOSE i \in 1..Len(cache.rows) : cache.rows[i].index = label

\* The songs the chart aggregates: the selected ones, or all when none is.
AggregatedRows ==
    LET Selected(row) == options = {} \/ row.cells["track_name"] \in options
    IN  SelectSeq(cache.rows, Selected)

ScoreSum(songs, emotion) ==
    SumTo([i \in 1..Len(songs) |-> songs[i].cells[emotion]], Len(songs))

CanonicalAxes ==
    <<"fear", "trust", "joy", "anticipation", "anger", "disgust", "sadness",
      "surprise">>

IsFloorOfMean(vals, songs) ==
    /\ Len(vals) = Len(CanonicalAxes)
    /\ \A k \in 1..Len(CanonicalAxes) :
         /\ vals[k] * Len(songs) <= ScoreSum(songs, CanonicalAxes[k])
         /\ ScoreSum(songs, CanonicalAxes[k]) < (vals[k] + 1) * Len(songs)

\* C1: for a non-empty set of aggregated songs (the selected ones, or the
\* whole catalog when none is selected) the chart's values are the 8-tuple,
\* in the order fear, trust, joy, anticipation, anger, disgust, sadness,
\* surprise, of floor(mean of the emotion's scores), and every ordering of
\* the selection list yields the same tuple.
C1_AggregateIsFloorOfMean ==
    (Ready /\ Len(AggregatedRows) > 0) =>
        /\ IsFloorOfMean(values, AggregatedRows)
        /\ \A o \in Orderings(options) :
             EmotionMeans(ChartFrame(cache, o)) = Return(values)

\* Two songs are selected out of three and some mean is not a whole number.
C1_Witness ==
    /\ Ready
    /\ Cardinality(options) = 2
    /\ Len(cache.rows) = 3
    /\ \E k \in 1..Len(CanonicalAxes) :
         ScoreSum(AggregatedRows, CanonicalAxes[k]) % 2 = 1

\* The emotion vector, in canonical order, of the catalog row with a label.
VectorOf(label) ==
    [k \in 1..Len(CanonicalAxes) |->
       cache.rows[CatalogPosition(label)].cells[CanonicalAxes[k]]]

\* cos(x, v) >= cos(y, v) for vectors of non-negative scores, the cosine of
\* an all-zero vector being 0.
CosineAtLeast(x, y, v) ==
    IF Dot(y, y) = 0 \/ Dot(v, v) = 0 THEN TRUE
    ELSE IF Dot(x, x) = 0 THEN Dot(y, v) = 0
    ELSE Dot(x, v) * Dot(x, v) * Dot(y, y) >= Dot(y, v) * Dot(y, v) * Dot(x, x)

IsArrangementOfCatalog(frame) ==
    /\ Len(frame.rows) = Len(cache.rows)
    /\ {frame.rows[i].index : i \in 1..Len(frame.rows)}
         = {cache.rows[i].index : i \in 1..Len(cache.rows)}

SimilarityShown == Len(top_similar_df.columns) > 0

\* C2 (as amended): the similarity ranking lists every catalog song once, in
\* non-increasing order of cosine similarity to the reference vector.
C2_SortedBySimilarity ==
    (Ready /\ SimilarityShown) =>
        /\ IsArrangementOfCatalog(top_similar_df)
        /\ \A i, j \in 1..Len(top_similar_df.rows) :
             i < j => CosineAtLeast(VectorOf(top_similar_df.rows[i].index),
                                    VectorOf(top_similar_df.rows[j].index),
                                    values)

\* C2 (as stated): moreover two songs of equal similarity appear in their
\* catalog order.
C2_Original ==
    /\ C2_SortedBySimilarity
    /\ (Ready /\ SimilarityShown) =>
         \A i, j \in 1..Len(top_similar_df.rows) :
           (/\ i < j
            /\ CosineAtLeast(VectorOf(top_similar_df.rows[j].index),
                             VectorOf(top_similar_df.rows[i].index), values))
           => CatalogPosition(top_similar_df.rows[i].index)
                < CatalogPosition(top_similar_df.rows[j].index)

\* A ranking of three songs that puts a strictly more similar song of a later
\* catalog position first.
C2_Witness ==
    /\ Ready /\ SimilarityShown
    /\ Len(top_similar_df.rows) = 3
    /\ \E i, j \in 1..3 :
         /\ i < j
         /\ ~CosineAtLeast(VectorOf(top_similar_df.rows[j].index),
                           VectorOf(top_similar_df.rows[i].index), values)
         /\ CatalogPosition(top_similar_df.rows[i].index)
              > CatalogPosition(top_similar_df.rows[j].index)

\* C3: the similarity result holds no song whose title is selected, and holds
\* the other songs in the order of the ranking computed before exclusion.
C3_ExclusionKeepsOrder ==
    (Ready /\ SimilarityShown) =>
        /\ \A i \in 1..Len(df_similarity.rows) :
             /\ df_similarity.rows[i].cells["track_name"] \notin options
             /\ df_similarity.rows[i].cells["kyokumei"] \notin options
        /\ LET NotSelected(label) ==
                 cache.rows[CatalogPosition(label)].cells["track_name"]
                   \notin options
           IN  Labels(df_similarity)
                 = SelectSeq(Labels(top_similar_df), NotSelected)

\* One song is excluded and the two that remain are not in catalog order.
C3_Witness ==
    /\ Ready /\ SimilarityShown
    /\ Cardinality(options) = 1
    /\ Len(df_similarity.rows) = 2
    /\ CatalogPosition(df_similarity.rows[1].index)
         > CatalogPosition(df_similarity.rows[2].index)

RankingShown == Len(df_selected_emotion.columns) > 0

Descending == ascending_select = LARGEST_FIRST

Reverse(s) == [i \in 1..Len(s) |-> s[Len(s) + 1 - i]]

NoTies(emotion) ==
    \A i, j \in 1..Len(cache.rows) :
      i # j => cache.rows[i].cells[emotion] # cache.rows[j].cells[emotion]

IsRankingOfCatalog ==
    /\ Len(df_selected_emotion.rows) = Len(cache.rows)
    /\ \A i \in 1..Len(cache.rows) :
         Cardinality({j \in 1..Len(df_selected_emotion.rows) :
                        df_selected_emotion.rows[j].cells
                          = ("juni" :> df_selected_emotion.rows[j].cells["juni"])
                              @@ cache.rows[i].cells}) = 1

\* C4 (as amended): the emotion ranking holds every catalog song exactly once,
\* ordered by the selected emotion's score (non-increasing when "largest
\* first" is chosen, non-decreasing otherwise); when no two songs share a
\* score, it is the exact reverse of the ranking in the other direction.
C4_SortedByEmotion ==
    (Ready /\ RankingShown) =>
        /\ IsRankingOfCatalog
        /\ \A i, j \in 1..Len(df_selected_emotion.rows) :
             i < j =>
               IF Descending
               THEN df_selected_emotion.rows[i].cells[selected_emotion]
                      >= df_selected_emotion.rows[j].cells[selected_emotion]
               ELSE df_selected_emotion.rows[i].cells[selected_emotion]
                      <= df_selected_emotion.rows[j].cells[selected_emotion]
        /\ NoTies(selected_emotion) =>
             \A p \in SortValues(cache, selected_emotion, Descending) :
               Titles(RankingResult(cache, p))
                 = Reverse(Titles(df_selected_emotion))

\* The catalog position of the song ranked i-th.
RankedPosition(i) ==
    CHOOSE k \in 1..Len(cache.rows) :
      cache.rows[k].cells["track_name"]
        = df_selected_emotion.rows[i].cells["track_name"]

\* C4 (as stated): moreover songs of equal score keep their catalog order.
C4_Original ==
    /\ C4_SortedByEmotion
    /\ (Ready /\ RankingShown) =>
         \A i, j \in 1..Len(df_selected_emotion.rows) :
           (/\ i < j
            /\ df_selected_emotion.rows[i].cells[selected_emotion]
                 = df_selected_emotion.rows[j].cells[selected_emotion])
           => RankedPosition(i) < RankedPosition(j)

\* Three songs of distinct scores, largest first, not in catalog order.
C4_Witness ==
    /\ Ready /\ RankingShown
    /\ Descending
    /\ Len(df_selected_emotion.rows) = 3
    /\ NoTies(selected_emotion)
    /\ Titles(df_selected_emotion) # Titles(cache)

HasRanks(frame) ==
    \A i \in 1..Len(frame.rows) :
      frame.rows[i].cells["juni"] = ToString(i) \o RANK_SUFFIX

\* C5: in the emotion ranking (all N songs) and in the similarity result (the
\* M songs left after exclusion) the i-th row carries rank i, for i = 1..N
\* (1..M): 1-based and consecutive, also between rows of equal score.
C5_RanksAreConsecutive ==
    /\ (Ready /\ RankingShown) =>
         /\ Len(df_selected_emotion.rows) = Len(cache.rows)
         /\ HasRanks(df_selected_emotion)
    /\ (Ready /\ SimilarityShown) =>
         /\ Len(df_similarity.rows)
              = Len(cache.rows) - Len(OptionList(cache, options))
         /\ HasRanks(df_similarity)

\* Both rankings are shown, the emotion ranking with two adjacent songs of
\* equal score and the similarity result with two songs.
C5_Witness ==
    /\ Ready /\ RankingShown /\ SimilarityShown
    /\ Len(df_similarity.rows) = 2
    /\ \E i \in 1..(Len(df_selected_emotion.rows) - 1) :
         df_selected_emotion.rows[i].cells[selected_emotion]
           = df_selected_emotion.rows[i + 1].cells[selected_emotion]

\* The image cell does not decode: one of the two parse steps fails, or one
\* of the two decoded lists is empty.
Undecodable(cell) ==
    \/ ~cell.parses
    \/ Len(cell.value) = 0
    \/ ~cell.value[1].parses
    \/ Len(cell.value[1].value) = 0

UndecodableRecords ==
    {i \in 1..Len(csv) : Undecodable(csv[i].cells["image_urls"])}

Loaded == phase # "start"

C7_CatalogNeverMutated ==
    Ready => /\ df = cache
             /\ cache = load_df(csv).val
             /\ cache.columns = CSV_COLUMNS \o <<"kyokumei", "converted_image_urls">>

\* Songs are selected, the similarity ranking is shown, an emotion is chosen,
\* the order is changed and a row of the ranking is selected.
C7_Witness ==
    /\ Ready /\ SimilarityShown /\ RankingShown
    /\ Cardinality(options) = 2
    /\ ascending_select = SMALLEST_FIRST
    /\ Len(rows) = 1
    /\ selected_song # None

\* C8: aggregating over no songs fails: the run ends with the exception and
\* no values are produced in its place.  With no song selected the whole
\* catalog is aggregated, so that the failure arises for an empty catalog
\* only.
C8_EmptyAggregateFails ==
    Ready =>
        /\ Len(AggregatedRows) = 0 => (error = "ValueError" /\ values = <<>>)
        /\ (options = {} /\ Len(cache.rows) > 0) =>
             /\ error = None
             /\ IsFloorOfMean(values, cache.rows)
        /\ error = "ValueError" => Len(cache.rows) = 0

\* The script ran over a catalog of no songs.
C8_Witness ==
    /\ Ready
    /\ Len(cache.rows) = 0
    /\ Len(AggregatedRows) = 0
    /\ error = "ValueError"

RecognizedLabels ==
    {"joy", "trust", "fear", "surprise", "sadness", "disgust", "anger",
     "anticipation"}

DetailShown == selected_song # None

\* C10: whenever the detail panel is shown, its song is the one at the
\* selected row of the ranking displayed, which is a ranking of the catalog
\* by the current emotion in the current direction; the direction is defined
\* whenever a ranking is computed (descending exactly for "largest first");
\* the selected row lies within 0..N-1.
C10_DetailMatchesSelectedRow ==
    Ready =>
        /\ DetailShown =>
             /\ RankingShown
             /\ Len(rows) = 1
             /\ selected_song
                  = df_selected_emotion.rows[rows[1] + 1].cells["kyokumei"]
        /\ RankingShown =>
             /\ ascending_flg \in {"True", "False"}
             /\ ascending_flg = "False" <=> ascending_select = LARGEST_FIRST
             /\ \E p \in SortValues(cache, selected_emotion, ~Descending) :
                  df_selected_emotion = RankingResult(cache, p)
        /\ \A i \in 1..Len(rows) :
             rows[i] \in 0..(Len(df_selected_emotion.rows) - 1)
        /\ (RankingShown /\ Len(rows) > 0) => DetailShown

\* A row other than the first is selected in a smallest-first ranking whose
\* song at that row is not the catalog's song at that position.
C10_Witness ==
    /\ Ready /\ DetailShown
    /\ ascending_select = SMALLEST_FIRST
    /\ rows[1] > 0
    /\ selected_song # cache.rows[rows[1] + 1].cells["kyokumei"]

====
